---- MODULE Spec2Model ----
(***************************************************************************)
(* Layered graph layout of speedscope's call-graph view: the generic       *)
(* directed Graph container, rankVertices (longest-path ranking by a       *)
(* memoized depth-first recursion), ranksToLevels (real and virtual        *)
(* LevelNodes, edge chains, crossing-minimization passes), positionNodes   *)
(* (a rectangle for every LevelNode) and makeEdgePaths (the path of every  *)
(* edge through the rectangles of its chain).                              *)
(*                                                                         *)
(* Representation.  A JavaScript Set is a duplicate-free sequence in       *)
(* insertion order (its iteration order); a Map is a function whose DOMAIN *)
(* is its key set (the rank map also keeps its key order, since it is      *)
(* iterated).  Vertices are opaque identities: the vertex inserted k-th    *)
(* is named k.  An edge object is identified by its position in the edge   *)
(* set; parallel edges are distinct objects with equal endpoints.  A       *)
(* LevelNode object is identified by its position in the heap `nodes`, in  *)
(* allocation order.                                                       *)
(***************************************************************************)
EXTENDS Integers, Sequences, FiniteSets, TLC

\* Bounds of the model: the size of a graph (its vertices and edges together),
\* and the edges and the ranks of a rank map that the caller supplies.
MaxSize == 6
GivenMaxEdges == 2
GivenMaxRank == 2

\* for (let pass = 0; pass < 4; pass++)
NumPasses == 4

\* LevelNode.vertex of a virtual node (null)
NullVertex == 0

VARIABLES
  pc,               \* position of the program
  vertices,         \* Graph.vertices
  edges,            \* Graph.edges: edge objects [from, to]
  edgesEnteringVertex,
  edgesLeavingVertex,
  visited,          \* rankVertices: visited
  ranks,            \* rankVertices: ranks (the Map's values)
  rankOrder,        \* rankVertices: ranks (the Map's keys, insertion order)
  stack,            \* frames of getRank in progress
  vi,               \* position of itForEach over the vertices / the edges
  nodes,            \* heap of LevelNode objects
  vertexToLevelNode,
  rankToLevel,
  edgeToLevelNodes,
  minRank,
  maxRank,
  levels,
  builtLevels,      \* history: the rows as ranksToLevels first populated them
  pass,             \* the passes done
  err,              \* the Error thrown, "" if none
  positions,        \* positionNodes: positions
  edgePaths         \* makeEdgePaths: edgePaths

vars == <<pc, vertices, edges, edgesEnteringVertex, edgesLeavingVertex, visited,
          ranks, rankOrder, stack, vi, nodes, vertexToLevelNode, rankToLevel,
          edgeToLevelNodes, minRank, maxRank, levels, builtLevels, pass, err,
          positions, edgePaths>>

graphVars == <<vertices, edges, edgesEnteringVertex, edgesLeavingVertex>>
rankVars == <<visited, ranks, rankOrder, stack, vi>>
levelVars == <<nodes, vertexToLevelNode, rankToLevel, edgeToLevelNodes, minRank,
               maxRank, levels, builtLevels, pass>>
drawVars == <<positions, edgePaths>>

----------------------------------------------------------------------------
\* Helpers for the containers.

Range(s) == {s[i] : i \in 1..Len(s)}

Max(a, b) == IF a >= b THEN a ELSE b

Min(a, b) == IF a <= b THEN a ELSE b

\* Set.prototype.add: no effect when the element is already a member.
SetAdd(s, x) == IF x \in Range(s) THEN s ELSE Append(s, x)

\* Map.prototype.set
MapSet(m, k, v) == [x \in DOMAIN m \cup {k} |-> IF x = k THEN v ELSE m[x]]

EmptyMap == [x \in {} |-> 0]

\* getOrInsert(map, k, () => fallback): the map with k present
GetOrInsert(m, k, fallback) == IF k \in DOMAIN m THEN m ELSE MapSet(m, k, fallback)

\* getOrElse(map, k, () => fallback): the value, the map is not changed
GetOrElse(m, k, fallback) == IF k \in DOMAIN m THEN m[k] ELSE fallback

Reverse(s) == [i \in 1..Len(s) |-> s[Len(s) + 1 - i]]

----------------------------------------------------------------------------
\* Graph

\* The vertex objects a caller can pass: the members, and the next new one.
VertexChoices(vs) == 1..(Len(vs) + 1)

GraphSize(vs, es) == Len(vs) + Len(es)

addVertex(vs, v) == SetAdd(vs, v)

\* Graph.getEdgesEntering(v): the Set of edge objects, or a new empty Set
getEdgesEntering(v) ==
  IF v \in DOMAIN edgesEnteringVertex THEN edgesEnteringVertex[v] ELSE <<>>

getEdgesLeaving(v) ==
  IF v \in DOMAIN edgesLeavingVertex THEN edgesLeavingVertex[v] ELSE <<>>

AddVertex(v) ==
  /\ pc = "graph"
  /\ v \in VertexChoices(vertices)
  /\ vertices' = addVertex(vertices, v)
  /\ GraphSize(vertices', edges) <= MaxSize
  /\ UNCHANGED <<pc, edges, edgesEnteringVertex, edgesLeavingVertex, rankVars,
                 levelVars, err, drawVars>>

\* A bug: the index entry of the key is a new Set that holds e alone.
IndexEdgeReplacing(index, key, e) == MapSet(index, key, <<e>>)

\* getOrInsert(index, key, () => new Set()).add(e)
IndexEdge(index, key, e) ==
  [GetOrInsert(index, key, <<>>) EXCEPT ![key] = SetAdd(@, e)]

\* The edge object e is edges[e] when it was inserted before, and otherwise a
\* new object [from |-> f, to |-> t], which becomes edges[Len(edges) + 1].
AddEdge(e, f, t, maxEdges) ==
  /\ pc = "graph"
  /\ e \in 1..Min(Len(edges) + 1, maxEdges)
  /\ e <= Len(edges) => f = edges[e].from /\ t = edges[e].to
  /\ LET vs1 == addVertex(vertices, f)
         vs2 == addVertex(vs1, t)
         present == e <= Len(edges)
     IN  /\ f \in VertexChoices(vertices)
         /\ t \in VertexChoices(vs1)
         /\ vertices' = vs2
         /\ edges' = IF present THEN edges ELSE Append(edges, [from |-> f, to |-> t])
         /\ edgesEnteringVertex' = IndexEdge(edgesEnteringVertex, t, e)
         /\ edgesLeavingVertex' = IndexEdge(edgesLeavingVertex, f, e)
         /\ GraphSize(vertices', edges') <= MaxSize
  /\ UNCHANGED <<pc, rankVars, levelVars, err, drawVars>>

----------------------------------------------------------------------------
\* rankVertices

\* A bug: let maxParentRank = 0
FrameFromZero(v) == [v |-> v, maxParentRank |-> 0, ei |-> 1]

Frame(v) == [v |-> v, maxParentRank |-> -1, ei |-> 1]

\* A bug: Math.min for Math.max
ResumeMin(fr, r) ==
  [fr EXCEPT !.maxParentRank = IF r <= fr.maxParentRank THEN r ELSE fr.maxParentRank,
             !.ei = fr.ei + 1]

\* The value a finished call getRank(...) = r hands to the frame that made it:
\* maxParentRank = Math.max(r, maxParentRank), and the loop moves on.
Resume(fr, r) ==
  [fr EXCEPT !.maxParentRank = Max(r, fr.maxParentRank), !.ei = fr.ei + 1]

\* The state of a call of rankVertices: the Set visited, the Map ranks (and its
\* key order), the frames of getRank in progress, the position of itForEach.
RankState == [visited |-> visited, ranks |-> ranks, rankOrder |-> rankOrder,
              stack |-> stack, vi |-> vi]

RankInit == [visited |-> {}, ranks |-> EmptyMap, rankOrder |-> <<>>,
             stack |-> <<>>, vi |-> 1]

\* itForEach(graph.getVertices(), getRank): the next top-level call getRank(v)
getRankTop(rs) ==
  LET v == vertices[rs.vi]
  IN  IF v \in rs.visited
        THEN [rs EXCEPT !.vi = rs.vi + 1]
        ELSE [rs EXCEPT !.visited = rs.visited \cup {v},
                        !.stack = <<Frame(v)>>,
                        !.vi = rs.vi + 1]

\* A bug: the recursive call does not mark its vertex visited.
getRankEdgeUnmarked(rs) ==
  LET top == rs.stack[Len(rs.stack)]
      u == edges[getEdgesEntering(top.v)[top.ei]].from
  IN  IF u \in rs.visited
        THEN [rs EXCEPT !.stack[Len(rs.stack)] =
                          Resume(top, IF u \in DOMAIN rs.ranks THEN rs.ranks[u] ELSE -1)]
        ELSE [rs EXCEPT !.stack = Append(rs.stack, Frame(u))]

\* One iteration of the loop over the entering edges: getRank(enteringEdge.from)
getRankEdge(rs) ==
  LET top == rs.stack[Len(rs.stack)]
      u == edges[getEdgesEntering(top.v)[top.ei]].from
  IN  IF u \in rs.visited
        THEN [rs EXCEPT !.stack[Len(rs.stack)] =
                          Resume(top, IF u \in DOMAIN rs.ranks THEN rs.ranks[u] ELSE -1)]
        ELSE [rs EXCEPT !.visited = rs.visited \cup {u},
                        !.stack = Append(rs.stack, Frame(u))]

\* A bug: the rank stored is the highest rank of a parent, not one more
getRankFinishFlat(rs) ==
  LET top == rs.stack[Len(rs.stack)]
      vRank == Max(top.maxParentRank, 0)
      rest == SubSeq(rs.stack, 1, Len(rs.stack) - 1)
  IN  [rs EXCEPT !.ranks = MapSet(rs.ranks, top.v, vRank),
                 !.rankOrder = SetAdd(rs.rankOrder, top.v),
                 !.stack = IF rest = <<>> THEN rest
                           ELSE [rest EXCEPT ![Len(rest)] = Resume(rest[Len(rest)], vRank)]]

\* The loop is over: ranks.set(v, maxParentRank + 1); return vRank
getRankFinish(rs) ==
  LET top == rs.stack[Len(rs.stack)]
      vRank == top.maxParentRank + 1
      rest == SubSeq(rs.stack, 1, Len(rs.stack) - 1)
  IN  [rs EXCEPT !.ranks = MapSet(rs.ranks, top.v, vRank),
                 !.rankOrder = SetAdd(rs.rankOrder, top.v),
                 !.stack = IF rest = <<>> THEN rest
                           ELSE [rest EXCEPT ![Len(rest)] = Resume(rest[Len(rest)], vRank)]]

InLoop(rs) ==
  /\ rs.stack # <<>>
  /\ rs.stack[Len(rs.stack)].ei <= Len(getEdgesEntering(rs.stack[Len(rs.stack)].v))

RankDone(rs) == rs.stack = <<>> /\ rs.vi > Len(vertices)

RankStep(rs) ==
  IF rs.stack = <<>> THEN getRankTop(rs)
  ELSE IF InLoop(rs) THEN getRankEdge(rs)
  ELSE getRankFinish(rs)

\* rankVertices(graph), run to its return
RECURSIVE rankVertices(_)
rankVertices(rs) == IF RankDone(rs) THEN rs ELSE rankVertices(RankStep(rs))

SetRankState(rs) ==
  /\ visited' = rs.visited
  /\ ranks' = rs.ranks
  /\ rankOrder' = rs.rankOrder
  /\ stack' = rs.stack
  /\ vi' = rs.vi

\* const ranks = rankVertices(graph)
RankVertices ==
  /\ pc = "graph"
  /\ \E rs \in {rankVertices(RankInit)} : SetRankState(rs)
  /\ pc' = "ranked"
  /\ UNCHANGED <<graphVars, levelVars, err, drawVars>>

\* The same call, step by step: the call,
RankCall ==
  /\ pc = "graph"
  /\ SetRankState(RankInit)
  /\ pc' = "rank"
  /\ UNCHANGED <<graphVars, levelVars, err, drawVars>>

\* the top-level calls of getRank,
RankNext ==
  /\ pc = "rank"
  /\ stack = <<>>
  /\ vi <= Len(vertices)
  /\ \E rs \in {getRankTop(RankState)} : SetRankState(rs)
  /\ UNCHANGED <<pc, graphVars, levelVars, err, drawVars>>

\* the recursive calls,
RankEdge ==
  /\ pc = "rank"
  /\ InLoop(RankState)
  /\ \E rs \in {getRankEdge(RankState)} : SetRankState(rs)
  /\ UNCHANGED <<pc, graphVars, levelVars, err, drawVars>>

\* the returns of getRank,
RankFinish ==
  /\ pc = "rank"
  /\ stack # <<>>
  /\ ~InLoop(RankState)
  /\ \E rs \in {getRankFinish(RankState)} : SetRankState(rs)
  /\ UNCHANGED <<pc, graphVars, levelVars, err, drawVars>>

\* and return ranks.
RankReturn ==
  /\ pc = "rank"
  /\ RankDone(RankState)
  /\ pc' = "ranked"
  /\ UNCHANGED <<graphVars, rankVars, levelVars, err, drawVars>>

----------------------------------------------------------------------------
\* ranksToLevels

LevelNode(ps, v) == [parents |-> ps, children |-> <<>>, vertex |-> v, index |-> 0]

\* levelNodeList.push(levelNode) on getOrInsert(rankToLevel, rank, makeEmpty)
PushToLevel(r2l, rank, n) ==
  LET m == GetOrInsert(r2l, rank, <<>>)
  IN  [m EXCEPT ![rank] = Append(@, n)]

\* The locals of a call of ranksToLevels; err is the Error thrown, if any.
LevelInit == [nodes |-> <<>>, vertexToLevelNode |-> EmptyMap, rankToLevel |-> EmptyMap,
              edgeToLevelNodes |-> EmptyMap, minRank |-> 0, maxRank |-> 0, err |-> ""]

\* for (let [vertex, rank] of ranks): a real LevelNode per key of the rank map,
\* from the i-th key on
RECURSIVE CreateRealNodes(_, _)
CreateRealNodes(i, st) ==
  IF i > Len(rankOrder) THEN st
  ELSE LET vertex == rankOrder[i]
           rank == ranks[vertex]
           n == Len(st.nodes) + 1
       IN  CreateRealNodes(i + 1,
             [st EXCEPT !.nodes = Append(st.nodes, LevelNode(<<>>, vertex)),
                        !.vertexToLevelNode = MapSet(st.vertexToLevelNode, vertex, n),
                        !.rankToLevel = PushToLevel(st.rankToLevel, rank, n),
                        !.minRank = Min(st.minRank, rank),
                        !.maxRank = Max(st.maxRank, rank)])

\* One iteration of the loop that inserts the virtual nodes, for row rank;
\* lp is [nodes, r2l, chain, parent]
InsertVirtualNode(rank, lp) ==
  LET n == Len(lp.nodes) + 1
      withChild == [lp.nodes EXCEPT ![lp.parent].children = Append(@, n)]
  IN  [nodes |-> Append(withChild, LevelNode(<<lp.parent>>, NullVertex)),
       r2l |-> PushToLevel(lp.r2l, rank, n),
       chain |-> Append(lp.chain, n),
       parent |-> n]

\* A bug: rank <= toRank
RECURSIVE InsertVirtualNodesInclusive(_, _, _)
InsertVirtualNodesInclusive(rank, toRank, lp) ==
  IF ~(rank <= toRank) THEN lp
  ELSE InsertVirtualNodesInclusive(rank + 1, toRank, InsertVirtualNode(rank, lp))

\* for (let rank = fromRank + 1; rank < toRank; rank++)
RECURSIVE InsertVirtualNodes(_, _, _)
InsertVirtualNodes(rank, toRank, lp) ==
  IF ~(rank < toRank) THEN lp
  ELSE InsertVirtualNodes(rank + 1, toRank, InsertVirtualNode(rank, lp))

\* A bug: the last node is not pushed to its parent's children.
LinkLastParentsOnly(lp, toLevelNode) ==
  [nodes |-> [lp.nodes EXCEPT ![toLevelNode].parents = Append(@, lp.parent)],
   r2l |-> lp.r2l,
   chain |-> Append(lp.chain, toLevelNode),
   parent |-> lp.parent]

\* The last three statements of handleEdge, after the loop
LinkLast(lp, toLevelNode) ==
  [nodes |-> [lp.nodes EXCEPT ![toLevelNode].parents = Append(@, lp.parent),
                              ![lp.parent].children = Append(@, toLevelNode)],
   r2l |-> lp.r2l,
   chain |-> Append(lp.chain, toLevelNode),
   parent |-> lp.parent]

Thrown(st, e) == [st |-> [st EXCEPT !.err = e], chain |-> <<>>]

\* A bug: the chain of the reversed edge, not reversed
BackChainUnreversed(nodeList) == nodeList

\* The chain of a back edge: nodes.reverse()
BackChain(nodeList) == Reverse(nodeList)

\* A bug: the comparison never holds.
IsSidewaysNever(fromRank, toRank) == FALSE

\* toRank === fromRank
IsSideways(fromRank, toRank) == toRank = fromRank

\* handleEdge(from, to): the locals after the call and the chain returned, or
\* the Error thrown
RECURSIVE handleEdge(_, _, _)
handleEdge(from, to, st) ==
  IF from = to
    THEN IF from \notin DOMAIN st.vertexToLevelNode
           THEN Thrown(st, "Missing level node or self cycle")
           ELSE [st |-> st, chain |-> <<st.vertexToLevelNode[from]>>]
  ELSE IF from \notin DOMAIN ranks \/ to \notin DOMAIN ranks
    THEN Thrown(st, "Vertex with no rank")
  ELSE IF IsSideways(ranks[from], ranks[to])
    THEN Thrown(st, "Found sideways edge")
  ELSE IF ranks[to] < ranks[from]
    THEN LET back == handleEdge(to, from, st)
         IN  [back EXCEPT !.chain = BackChain(@)]
  ELSE IF from \notin DOMAIN st.vertexToLevelNode \/ to \notin DOMAIN st.vertexToLevelNode
    THEN Thrown(st, "Missing level node")
  ELSE LET fromLevelNode == st.vertexToLevelNode[from]
           lp == LinkLast(InsertVirtualNodes(ranks[from] + 1, ranks[to],
                            [nodes |-> st.nodes, r2l |-> st.rankToLevel,
                             chain |-> <<fromLevelNode>>, parent |-> fromLevelNode]),
                          st.vertexToLevelNode[to])
       IN  [st |-> [st EXCEPT !.nodes = lp.nodes, !.rankToLevel = lp.r2l],
            chain |-> lp.chain]

\* itForEach(edges, e => edgeToLevelNodes.set(e, handleEdge(e.from, e.to))),
\* from the i-th edge on; an Error ends the call
RECURSIVE HandleEdges(_, _)
HandleEdges(i, st) ==
  IF i > Len(edges) THEN st
  ELSE LET res == handleEdge(edges[i].from, edges[i].to, st)
       IN  IF res.st.err # "" THEN res.st
           ELSE HandleEdges(i + 1,
                  [res.st EXCEPT !.edgeToLevelNodes = MapSet(@, i, res.chain)])

\* A bug: level[i].index = i + 1
IndexAtOneBased(i) == i

\* level[i].index = i, for the node at the 1-based position i of the row
IndexAt(i) == i - 1

\* reindexLevel(level): the heap with level[i].index = i
reindexLevel(ns, level) ==
  [n \in 1..Len(ns) |->
     IF n \in Range(level)
       THEN [ns[n] EXCEPT !.index = IndexAt(CHOOSE i \in 1..Len(level) : level[i] = n)]
       ELSE ns[n]]

RECURSIVE ReindexAll(_, _, _)
ReindexAll(ns, lvls, i) ==
  IF i > Len(lvls) THEN ns ELSE ReindexAll(reindexLevel(ns, lvls[i]), lvls, i + 1)

\* A bug: rank < maxRank
BuildLevelsShort(st) ==
  [i \in 1..(st.maxRank - st.minRank) |->
     GetOrElse(st.rankToLevel, st.minRank + i - 1, <<>>)]

\* for (let rank = minRank; rank <= maxRank; rank++): the rows
BuildLevels(st) ==
  [i \in 1..(st.maxRank - st.minRank + 1) |->
     GetOrElse(st.rankToLevel, st.minRank + i - 1, <<>>)]

\* const levelResult = ranksToLevels(ranks, graph.getEdges()), up to the
\* passes that sort the rows
RanksToLevels ==
  /\ pc = "ranked"
  /\ \E st \in {HandleEdges(1, CreateRealNodes(1, LevelInit))} :
     \E lvls \in {BuildLevels(st)} :
         /\ vertexToLevelNode' = st.vertexToLevelNode
         /\ rankToLevel' = st.rankToLevel
         /\ edgeToLevelNodes' = st.edgeToLevelNodes
         /\ minRank' = st.minRank
         /\ maxRank' = st.maxRank
         /\ err' = st.err
         /\ IF st.err # ""
              THEN /\ pc' = "error"
                   /\ nodes' = st.nodes
                   /\ UNCHANGED <<levels, builtLevels>>
              ELSE /\ pc' = "sort"
                   /\ nodes' = ReindexAll(st.nodes, lvls, 1)
                   /\ levels' = lvls
                   /\ builtLevels' = lvls
  /\ pass' = 0
  /\ UNCHANGED <<graphVars, rankVars, drawVars>>

RECURSIVE SumIndex(_, _)
SumIndex(ns, ps) ==
  IF ps = <<>> THEN 0 ELSE ns[Head(ps)].index + SumIndex(ns, Tail(ps))

\* A weight is the fraction sum / count; 0 / 0 is NaN.
levelNodeParentWeight(ns, n) ==
  [sum |-> SumIndex(ns, ns[n].parents), count |-> Len(ns[n].parents)]

levelNodeChildWeight(ns, n) ==
  [sum |-> SumIndex(ns, ns[n].children), count |-> Len(ns[n].children)]

\* a > b on weights; every comparison with NaN is false
WeightGreater(a, b) ==
  /\ a.count > 0
  /\ b.count > 0
  /\ a.sum * b.count > b.sum * a.count

\* A stable sort by key: x moves left past the elements of greater key.
RECURSIVE SortedInsert(_, _, _)
SortedInsert(s, x, key) ==
  IF s # <<>> /\ WeightGreater(key[s[Len(s)]], key[x])
    THEN Append(SortedInsert(SubSeq(s, 1, Len(s) - 1), x, key), s[Len(s)])
    ELSE Append(s, x)

RECURSIVE SortFrom(_, _, _, _)
SortFrom(level, i, acc, key) ==
  IF i > Len(level) THEN acc
  ELSE SortFrom(level, i + 1, SortedInsert(acc, level[i], key), key)

sortBy(level, key) == SortFrom(level, 1, <<>>, key)

\* sortBy(levels[i], weight); reindexLevel(levels[i]) on lay = [levels, nodes],
\* for the 0-based row i; kind is "parent" or "child"
SortLevel(lay, i, kind) ==
  LET level == lay.levels[i + 1]
      key == [n \in Range(level) |->
                IF kind = "parent" THEN levelNodeParentWeight(lay.nodes, n)
                                   ELSE levelNodeChildWeight(lay.nodes, n)]
      sorted == sortBy(level, key)
  IN  [levels |-> [lay.levels EXCEPT ![i + 1] = sorted],
       nodes |-> reindexLevel(lay.nodes, sorted)]

\* The k-th sort-and-reindex step of a pass (k = 1 .. 2 * levels.length): the
\* rows top to bottom by parent weight, then bottom to top by child weight
PassStep(lay, k) ==
  LET n == Len(lay.levels)
  IN  IF k <= n THEN SortLevel(lay, k - 1, "parent")
      ELSE SortLevel(lay, 2 * n - k, "child")

\* The first k steps of a pass
RECURSIVE PassPrefix(_, _)
PassPrefix(lay, k) == IF k = 0 THEN lay ELSE PassStep(PassPrefix(lay, k - 1), k)

Layout == [levels |-> levels, nodes |-> nodes]

\* One iteration of for (let pass = 0; pass < 4; pass++)
SortPass ==
  /\ pc = "sort"
  /\ pass < NumPasses
  /\ \E lay \in {PassPrefix(Layout, 2 * Len(levels))} :
       levels' = lay.levels /\ nodes' = lay.nodes
  /\ pass' = pass + 1
  /\ UNCHANGED <<pc, graphVars, rankVars, vertexToLevelNode, rankToLevel,
                 edgeToLevelNodes, minRank, maxRank, builtLevels, err, drawVars>>

\* return { edgeToLevelNodes, levels }
ReturnLevels ==
  /\ pc = "sort"
  /\ pass = NumPasses
  /\ pc' = "done"
  /\ UNCHANGED <<graphVars, rankVars, levelVars, err, drawVars>>

\* ranksToLevels called with a rank map of the caller's: a rank for every
\* vertex, the keys in the vertices' order
GivenRanks(r) ==
  /\ pc = "graph"
  /\ ranks' = r
  /\ rankOrder' = vertices
  /\ pc' = "ranked"
  /\ UNCHANGED <<graphVars, visited, stack, vi, levelVars, err, drawVars>>
\* positionNodes.  Coordinates are held in quarters of a unit (Unit to the
\* unit): every number the layout computes is a multiple of 1/4 (halves of
\* the constants, then a midpoint of two such sums), which a double
\* represents exactly, so the scaled integers follow the code's arithmetic.
Unit == 2 * 2

\* const width = 230 / 2
width == (230 * Unit) \div 2

\* const height = 50 / 2
height == (50 * Unit) \div 2

\* const verticalSpacing = 90 / 2
verticalSpacing == (90 * Unit) \div 2

\* const horizontalSpacing = 50 / 2
horizontalSpacing == (50 * Unit) \div 2

Vec2(x, y) == [x |-> x, y |-> y]

\* Vec2.plus
plus(a, b) == Vec2(a.x + b.x, a.y + b.y)

\* Vec2.times(1/2)
timesHalf(a) == Vec2(a.x \div 2, a.y \div 2)

\* new Rect(origin, size) and its accessors
Rect(origin, size) == [origin |-> origin, size |-> size]

left(r) == r.origin.x

top(r) == r.origin.y

rectWidth(r) == r.size.x

rectHeight(r) == r.size.y

\* levels.reduce((max, cur) => Math.max(max, cur.length), 0), from row i on
RECURSIVE maxCount(_, _, _)
maxCount(lvls, i, max) ==
  IF i > Len(lvls) THEN max
  ELSE maxCount(lvls, i + 1, Max(max, Len(lvls[i])))

totalWidth(lvls) ==
  maxCount(lvls, 1, 0) * width + (maxCount(lvls, 1, 0) - 1) * horizontalSpacing

\* if (node.vertex): a vertex is an object, so only null is falsy
HasVertex(ns, n) == ns[n].vertex # NullVertex

\* A bug: a virtual node counted as wide as a real one
levelWidthStepUniform(ns, lw, n) ==
  (IF lw > 0 THEN lw + horizontalSpacing ELSE lw) + width

\* One iteration of the loop that sums levelWidth
levelWidthStep(ns, lw, n) ==
  (IF lw > 0 THEN lw + horizontalSpacing ELSE lw)
    + (IF HasVertex(ns, n) THEN width ELSE horizontalSpacing)

\* levelWidth of a row, from its i-th node on
RECURSIVE levelWidth(_, _, _, _)
levelWidth(ns, level, i, lw) ==
  IF i > Len(level) THEN lw
  ELSE levelWidth(ns, level, i + 1, levelWidthStep(ns, lw, level[i]))

\* The Rect of a node met at x, y
NodeRect(ns, n, x, y) ==
  IF ~HasVertex(ns, n)
    THEN Rect(Vec2(x + horizontalSpacing \div 2, y + height \div 2), Vec2(0, 0))
    ELSE Rect(Vec2(x, y), Vec2(width, height))

\* x after a node
NextX(ns, n, x) ==
  (IF ~HasVertex(ns, n) THEN x + horizontalSpacing ELSE x + width)
    + horizontalSpacing

\* The loop that places the nodes of a row, from its i-th node on
RECURSIVE PositionLevel(_, _, _, _, _, _)
PositionLevel(ns, level, i, x, y, pos) ==
  IF i > Len(level) THEN pos
  ELSE PositionLevel(ns, level, i + 1, NextX(ns, level[i], x), y,
                     MapSet(pos, level[i], NodeRect(ns, level[i], x, y)))

\* for (let level of levels), from row i on
RECURSIVE PositionLevels(_, _, _, _, _)
PositionLevels(ns, lvls, i, y, pos) ==
  IF i > Len(lvls) THEN pos
  ELSE PositionLevels(ns, lvls, i + 1, y + height + verticalSpacing,
         PositionLevel(ns, lvls[i], 1,
           totalWidth(lvls) \div 2 - levelWidth(ns, lvls[i], 1, 0) \div 2,
           y, pos))

positionNodes(ns, lvls) == PositionLevels(ns, lvls, 1, 0, EmptyMap)

\* const positions = positionNodes(levelResult.levels)
PositionNodes ==
  /\ pc = "done"
  /\ positions' = positionNodes(nodes, levels)
  /\ pc' = "positioned"
  /\ UNCHANGED <<graphVars, rankVars, levelVars, err, edgePaths>>

\* new Vec2(rect.left() + rect.width() / 2, rect.top())
TopCentre(r) == Vec2(left(r) + rectWidth(r) \div 2, top(r))

\* anchor.plus(new Vec2(0, rect.height()))
Lowered(anchor, r) == plus(anchor, Vec2(0, rectHeight(r)))

\* path += `M ${fromAnchor.x} ${fromAnchor.y} `: a path is the sequence of its
\* commands, a command its letter and its points
MoveTo(fromRect) == [op |-> "M", to |-> Lowered(TopCentre(fromRect), fromRect)]

\* The anchors of one iteration of the loop over nodeList
FromAnchor(fromRect, toRect) ==
  IF top(fromRect) < top(toRect) THEN Lowered(TopCentre(fromRect), fromRect)
  ELSE TopCentre(fromRect)

ToAnchor(fromRect, toRect) ==
  IF top(fromRect) < top(toRect) THEN TopCentre(toRect)
  ELSE Lowered(TopCentre(toRect), toRect)

\* path += `S ${midpoint.x} ${midpoint.y} ` + `${toAnchor.x} ${toAnchor.y} `
CurveTo(fromRect, toRect) ==
  [op |-> "S",
   mid |-> timesHalf(plus(FromAnchor(fromRect, toRect), ToAnchor(fromRect, toRect))),
   to |-> ToAnchor(fromRect, toRect)]

\* if (!fromRect) throw ..., if (!toRect) throw ...
HasPositions(nodeList, pos) == \A k \in 1..Len(nodeList) : nodeList[k] \in DOMAIN pos

\* The path of one chain
EdgePath(nodeList, pos) ==
  [k \in 1..Len(nodeList) |->
     IF k = 1 THEN MoveTo(pos[nodeList[1]])
     ELSE CurveTo(pos[nodeList[k - 1]], pos[nodeList[k]])]

makeEdgePaths(e2l, pos) == [e \in DOMAIN e2l |-> EdgePath(e2l[e], pos)]

\* const edgePaths = makeEdgePaths(levelResult.edgeToLevelNodes, positions)
MakeEdgePaths ==
  /\ pc = "positioned"
  /\ IF \A e \in DOMAIN edgeToLevelNodes : HasPositions(edgeToLevelNodes[e], positions)
       THEN /\ edgePaths' = makeEdgePaths(edgeToLevelNodes, positions)
            /\ pc' = "drawn"
            /\ err' = err
       ELSE /\ edgePaths' = edgePaths
            /\ pc' = "error"
            /\ err' = "Failed to find position for endpoint"
  /\ UNCHANGED <<graphVars, rankVars, levelVars, positions>>

----------------------------------------------------------------------------

Init ==
  /\ pc = "graph"
  /\ vertices = <<>>
  /\ edges = <<>>
  /\ edgesEnteringVertex = EmptyMap
  /\ edgesLeavingVertex = EmptyMap
  /\ visited = {}
  /\ ranks = EmptyMap
  /\ rankOrder = <<>>
  /\ stack = <<>>
  /\ vi = 1
  /\ nodes = <<>>
  /\ vertexToLevelNode = EmptyMap
  /\ rankToLevel = EmptyMap
  /\ edgeToLevelNodes = EmptyMap
  /\ minRank = 0
  /\ maxRank = 0
  /\ levels = <<>>
  /\ builtLevels = <<>>
  /\ pass = 0
  /\ err = ""
  /\ positions = EmptyMap
  /\ edgePaths = EmptyMap

Next ==
  \/ \E v \in 1..MaxSize : AddVertex(v)
  \/ \E e, f, t \in 1..MaxSize : AddEdge(e, f, t, MaxSize)
  \/ RankVertices
  \/ RanksToLevels
  \/ SortPass
  \/ ReturnLevels
  \/ PositionNodes
  \/ MakeEdgePaths

Spec == Init /\ [][Next]_vars

\* rankVertices step by step
NextRank ==
  \/ \E v \in 1..MaxSize : AddVertex(v)
  \/ \E e, f, t \in 1..MaxSize : AddEdge(e, f, t, MaxSize)
  \/ RankCall
  \/ RankNext
  \/ RankEdge
  \/ RankFinish
  \/ RankReturn

SpecRank == Init /\ [][NextRank]_vars

\* ranksToLevels on rank maps that rankVertices did not compute
NextGiven ==
  \/ \E e, f, t \in 1..MaxSize : AddEdge(e, f, t, GivenMaxEdges)
  \/ \E r \in [Range(vertices) -> 0..GivenMaxRank] : GivenRanks(r)
  \/ RanksToLevels
  \/ SortPass
  \/ ReturnLevels

SpecGiven == Init /\ [][NextGiven]_vars

----------------------------------------------------------------------------
\* Notions the properties are stated with.

Count(s, x) == Cardinality({i \in 1..Len(s) : s[i] = x})

EdgeIds == 1..Len(edges)

Entering(v) == {e \in EdgeIds : edges[e].to = v}

Leaving(v) == {e \in EdgeIds : edges[e].from = v}

\* The vertices reached from the set S by a path of 1 .. k edges
RECURSIVE ReachedIn(_, _)
ReachedIn(S, k) ==
  IF k = 0 THEN {}
  ELSE LET next == {edges[e].to : e \in {d \in EdgeIds : edges[d].from \in S}}
       IN  next \cup ReachedIn(next, k - 1)

\* No vertex lies on a cycle (a self-loop is a cycle).
Acyclic == \A v \in Range(vertices) : v \notin ReachedIn({v}, Len(vertices))

SetMax(S) == CHOOSE x \in S : \A y \in S : y <= x

\* The number of edges of the longest path that ends in v (acyclic graphs)
RECURSIVE LongestPathTo(_)
LongestPathTo(v) ==
  IF Entering(v) = {} THEN 0
  ELSE 1 + SetMax({LongestPathTo(edges[e].from) : e \in Entering(v)})

\* rankVertices has returned the rank map that `ranks` holds
Ranked == pc = "ranked"

\* ranksToLevels has built the level structure (and is sorting it or has
\* returned it)
Levelled == pc \in {"sort", "done"}

NodeIds == 1..Len(nodes)

IsVirtual(n) == nodes[n].vertex = NullVertex

\* The 0-based rows in which the node n occurs
RowsOf(lvls, n) == {i - 1 : i \in {j \in 1..Len(lvls) : n \in Range(lvls[j])}}

InRow(n, r) == r + 1 \in 1..Len(levels) /\ n \in Range(levels[r + 1])

\* The chain of edge e, read from its endpoint of lower rank
ForwardChain(e) ==
  IF ranks[edges[e].from] <= ranks[edges[e].to]
    THEN edgeToLevelNodes[e] ELSE Reverse(edgeToLevelNodes[e])

LowRank(e) == Min(ranks[edges[e].from], ranks[edges[e].to])

\* C1: in an acyclic graph the ranks rankVertices returns satisfy
\* rank(v) >= rank(u) + 1 for every edge u -> v.
C1_RankIncreasesAlongEdges ==
  (Ranked /\ Acyclic) =>
    \A e \in EdgeIds : ranks[edges[e].to] >= ranks[edges[e].from] + 1

\* An acyclic graph, ranked, with an edge that skips a rank and one that does not
C1_Witness ==
  /\ Ranked
  /\ Acyclic
  /\ \E e \in EdgeIds : ranks[edges[e].to] = ranks[edges[e].from] + 2
  /\ \E e \in EdgeIds : ranks[edges[e].to] = ranks[edges[e].from] + 1

\* C2: in an acyclic graph the rank of a vertex is the length of the longest
\* path that reaches it: 0 when no edge enters it, and otherwise one more than
\* the greatest rank among the sources of its entering edges.
C2_RankIsLongestPath ==
  (Ranked /\ Acyclic) =>
    \A v \in Range(vertices) :
      /\ v \in DOMAIN ranks
      /\ ranks[v] = LongestPathTo(v)
      /\ Entering(v) = {} => ranks[v] = 0
      /\ Entering(v) # {} =>
           ranks[v] = 1 + SetMax({ranks[edges[e].from] : e \in Entering(v)})

\* An acyclic graph, ranked, with an isolated vertex and a vertex whose two
\* entering edges come from different ranks
C2_Witness ==
  /\ Ranked
  /\ Acyclic
  /\ \E v \in Range(vertices) : Entering(v) = {} /\ ranks[v] = 0
  /\ \E v \in Range(vertices) :
       \E d, e \in Entering(v) : ranks[edges[d].from] < ranks[edges[e].from]

\* C3: in an acyclic graph the chain of an edge u -> v with rank(u) < rank(v)
\* has rank(v) - rank(u) + 1 nodes: the real node of u, then one virtual node
\* in each row strictly between the two ranks, in increasing row order, then
\* the real node of v.
C3_ForwardChain ==
  (Levelled /\ Acyclic) =>
    \A e \in EdgeIds :
      LET u == edges[e].from
          v == edges[e].to
          c == edgeToLevelNodes[e]
      IN  ranks[u] < ranks[v] =>
            /\ Len(c) = ranks[v] - ranks[u] + 1
            /\ c[1] = vertexToLevelNode[u] /\ nodes[c[1]].vertex = u
            /\ c[Len(c)] = vertexToLevelNode[v] /\ nodes[c[Len(c)]].vertex = v
            /\ \A k \in 2..(Len(c) - 1) :
                 IsVirtual(c[k]) /\ RowsOf(levels, c[k]) = {ranks[u] + k - 1}

\* An acyclic graph whose returned chains include one with a virtual node
C3_Witness ==
  /\ pc = "done"
  /\ Acyclic
  /\ \E e \in EdgeIds :
       /\ ranks[edges[e].from] < ranks[edges[e].to]
       /\ Len(edgeToLevelNodes[e]) = 3
       /\ IsVirtual(edgeToLevelNodes[e][2])

\* C4: every vertex has exactly one real LevelNode; every LevelNode, every
\* node of every chain included, occurs in exactly one row and once in it; a
\* real node's row is its vertex's rank, and a virtual node's row is the row
\* it was created for (its place in the chain of its edge).
C4_RowMembership ==
  Levelled =>
    /\ \A v \in Range(vertices) :
         /\ v \in DOMAIN vertexToLevelNode
         /\ {n \in NodeIds : nodes[n].vertex = v} = {vertexToLevelNode[v]}
    /\ \A n \in NodeIds :
         /\ Cardinality(RowsOf(levels, n)) = 1
         /\ \A i \in 1..Len(levels) : Count(levels[i], n) <= 1
         /\ ~IsVirtual(n) => RowsOf(levels, n) = {ranks[nodes[n].vertex]}
         /\ IsVirtual(n) =>
              \E e \in EdgeIds : \E k \in 2..(Len(edgeToLevelNodes[e]) - 1) :
                ForwardChain(e)[k] = n
    /\ \A i \in 1..Len(levels) : Range(levels[i]) \subseteq NodeIds
    /\ \A e \in EdgeIds :
         /\ e \in DOMAIN edgeToLevelNodes
         /\ \A k \in 1..Len(edgeToLevelNodes[e]) :
              /\ ForwardChain(e)[k] \in NodeIds
              /\ RowsOf(levels, ForwardChain(e)[k]) = {LowRank(e) + k - 1}

\* A returned level structure with a row that holds a real and a virtual node
C4_Witness ==
  /\ pc = "done"
  /\ \E i \in 1..Len(levels) :
       /\ Len(levels[i]) = 2
       /\ \E m, n \in Range(levels[i]) : IsVirtual(m) /\ ~IsVirtual(n)

\* The rows of lay hold the nodes they were built with, and the column
\* indices of a row are the positions 0 .. n-1 of its nodes.
RowsKept(lay) ==
  /\ Len(lay.levels) = Len(builtLevels)
  /\ \A i \in 1..Len(builtLevels) :
       /\ Len(lay.levels[i]) = Len(builtLevels[i])
       /\ Range(lay.levels[i]) = Range(builtLevels[i])
       /\ \A j \in 1..Len(lay.levels[i]) : lay.nodes[lay.levels[i][j]].index = j - 1
       /\ {lay.nodes[n].index : n \in Range(lay.levels[i])} = 0..(Len(builtLevels[i]) - 1)

\* C5: the 4 passes never change which nodes a row holds nor its size: after
\* every sort-and-reindex step (each row top to bottom by parent weight, then
\* each row bottom to top by child weight) every row holds the nodes it held
\* before the passes, and its column indices are 0..n-1, each the position of
\* its node.
C5_PassesKeepRows ==
  /\ Levelled => RowsKept(Layout)
  /\ (pc = "sort" /\ pass < NumPasses) =>
       \A k \in 1..(2 * Len(levels)) : RowsKept(PassPrefix(Layout, k))
  /\ pc = "done" => pass = NumPasses

\* A level structure returned after the 4 passes, in which the passes have
\* changed the order of a row
C5_Witness ==
  /\ pc = "done"
  /\ pass = NumPasses
  /\ \E i \in 1..Len(levels) : levels[i] # builtLevels[i]

\* C6: both endpoints of every inserted edge are vertices, and the two
\* adjacency indices hold exactly the inserted edges: e is in
\* getEdgesEntering(v) iff e was inserted and e.to = v, and in
\* getEdgesLeaving(v) iff e was inserted and e.from = v.
C6_GraphIndices ==
  /\ \A e \in EdgeIds : edges[e].from \in Range(vertices) /\ edges[e].to \in Range(vertices)
  /\ \A v \in 1..MaxSize :
       /\ Range(getEdgesEntering(v)) = Entering(v)
       /\ Range(getEdgesLeaving(v)) = Leaving(v)
       /\ \A e \in EdgeIds : Count(getEdgesEntering(v), e) <= 1
       /\ \A e \in EdgeIds : Count(getEdgesLeaving(v), e) <= 1
  /\ DOMAIN edgesEnteringVertex = {v \in Range(vertices) : Entering(v) # {}}
  /\ DOMAIN edgesLeavingVertex = {v \in Range(vertices) : Leaving(v) # {}}

\* A graph with parallel edges, a vertex that only addVertex inserted, and a
\* vertex that only addEdge inserted
C6_Witness ==
  /\ pc = "graph"
  /\ \E d, e \in EdgeIds : d # e /\ edges[d] = edges[e] /\ edges[d].from # edges[d].to
  /\ \E v \in Range(vertices) : Entering(v) = {} /\ Leaving(v) = {}
  /\ Len(getEdgesEntering(2)) = 2

\* An edge between two different vertices of equal rank
SidewaysEdge(e) ==
  /\ edges[e].from # edges[e].to
  /\ ranks[edges[e].from] = ranks[edges[e].to]

\* C7: given a rank map and an edge set with an edge u -> v, u # v,
\* rank(u) = rank(v), ranksToLevels throws the sideways-edge error and returns
\* no level structure and no chain map.
C7_SidewaysEdgeThrows ==
  (pc \in {"sort", "done", "error"} /\ \E e \in EdgeIds : SidewaysEdge(e)) =>
    /\ pc = "error"
    /\ err = "Found sideways edge"
    /\ levels = <<>>

\* The error thrown for the second edge, after a first edge was given its chain
C7_Witness ==
  /\ pc = "error"
  /\ err = "Found sideways edge"
  /\ Len(edges) = 2
  /\ ~SidewaysEdge(1)
  /\ SidewaysEdge(2)
  /\ DOMAIN edgeToLevelNodes = {1}

\* C8: the chain of a back edge u -> v, rank(u) > rank(v), starts with the
\* real node of u, ends with the real node of v and holds one virtual node in
\* each row strictly between, in decreasing row order; of two consecutive
\* nodes of the chain, the one in the lower-numbered row is the parent.
C8_BackChain ==
  Levelled =>
    \A e \in EdgeIds :
      LET u == edges[e].from
          v == edges[e].to
          c == edgeToLevelNodes[e]
      IN  ranks[u] > ranks[v] =>
            /\ Len(c) = ranks[u] - ranks[v] + 1
            /\ c[1] = vertexToLevelNode[u] /\ nodes[c[1]].vertex = u
            /\ c[Len(c)] = vertexToLevelNode[v] /\ nodes[c[Len(c)]].vertex = v
            /\ \A k \in 2..(Len(c) - 1) :
                 IsVirtual(c[k]) /\ RowsOf(levels, c[k]) = {ranks[u] - (k - 1)}
            /\ \A k \in 1..(Len(c) - 1) :
                 /\ Count(nodes[c[k]].parents, c[k + 1]) >= 1
                 /\ Count(nodes[c[k + 1]].children, c[k]) >= 1
                 /\ Count(nodes[c[k]].children, c[k + 1]) = 0

\* A returned back edge whose chain passes a virtual node
C8_Witness ==
  /\ pc = "done"
  /\ \E e \in EdgeIds :
       /\ ranks[edges[e].from] = ranks[edges[e].to] + 2
       /\ Len(edgeToLevelNodes[e]) = 3
       /\ IsVirtual(edgeToLevelNodes[e][2])

\* What is left of a call of rankVertices: the top-level calls to make, the
\* vertices to visit (each costs a call and a return) with their entering
\* edges, and the frames in progress with the edges they have left.
RECURSIVE EdgesLeft(_)
EdgesLeft(frames) ==
  IF frames = <<>> THEN 0
  ELSE Len(getEdgesEntering(Head(frames).v)) + 1 - Head(frames).ei
       + EdgesLeft(Tail(frames))

RECURSIVE EnteringOf(_)
EnteringOf(S) ==
  IF S = {} THEN 0
  ELSE LET v == CHOOSE x \in S : TRUE
       IN  Len(getEdgesEntering(v)) + EnteringOf(S \ {v})

RankMeasure ==
  (Len(vertices) + 1 - vi)
  + 2 * Cardinality(Range(vertices) \ visited) + EnteringOf(Range(vertices) \ visited)
  + Len(stack) + EdgesLeft(stack)

\* C9: rankVertices terminates on every graph, cycles and self-loops
\* included: while it runs a step is always possible, every step lowers a
\* measure that is never negative, no rank stored is negative, and when it
\* returns every vertex has a rank.
C9_RankVerticesTerminates ==
  /\ [](pc = "rank" =>
         /\ RankMeasure >= 0
         /\ ENABLED (RankNext \/ RankEdge \/ RankFinish \/ RankReturn)
         /\ \A v \in DOMAIN ranks : ranks[v] \in Nat)
  /\ [][(pc = "rank" /\ pc' = "rank") => RankMeasure' < RankMeasure]_vars
  /\ [](pc = "ranked" =>
         \A v \in Range(vertices) : v \in DOMAIN ranks /\ ranks[v] \in Nat)

\* rankVertices has returned on a graph with a self-loop and a cycle of two
\* vertices
C9_Witness ==
  /\ Ranked
  /\ \E e \in EdgeIds : edges[e].from = edges[e].to
  /\ \E d, e \in EdgeIds :
       /\ edges[d].from # edges[d].to
       /\ edges[d].from = edges[e].to
       /\ edges[d].to = edges[e].from
  /\ \A v \in Range(vertices) : ranks[v] \in Nat

\* C10: two consecutive nodes of an edge's chain are linked both ways; a is in
\* b.parents as often as b is in a.children; every parent of a node of row r
\* is in row r-1 and every child in row r+1.
C10_ParentsAndChildren ==
  Levelled =>
    /\ \A e \in EdgeIds : \A k \in 1..(Len(edgeToLevelNodes[e]) - 1) :
         /\ Count(nodes[ForwardChain(e)[k + 1]].parents, ForwardChain(e)[k]) >= 1
         /\ Count(nodes[ForwardChain(e)[k]].children, ForwardChain(e)[k + 1]) >= 1
    /\ \A a, b \in NodeIds : Count(nodes[b].parents, a) = Count(nodes[a].children, b)
    /\ \A n \in NodeIds : \A r \in RowsOf(levels, n) :
         /\ \A i \in 1..Len(nodes[n].parents) : InRow(nodes[n].parents[i], r - 1)
         /\ \A i \in 1..Len(nodes[n].children) : InRow(nodes[n].children[i], r + 1)

\* A returned structure with a node of two parents, a real and a virtual one
C10_Witness ==
  /\ pc = "done"
  /\ \E n \in NodeIds :
       /\ Len(nodes[n].parents) = 2
       /\ IsVirtual(nodes[n].parents[2])
       /\ ~IsVirtual(nodes[n].parents[1])

Positioned == pc \in {"positioned", "drawn"}

\* The slot of a node: a real node's slot is its rectangle's span, a virtual
\* node's slot is the placeholder around its anchor
SlotLeft(n) ==
  IF IsVirtual(n) THEN left(positions[n]) - (25 * Unit) \div 2
  ELSE left(positions[n])

SlotRight(n) == SlotLeft(n) + (IF IsVirtual(n) THEN 25 * Unit ELSE 115 * Unit)

SlotTop(n) ==
  IF IsVirtual(n) THEN top(positions[n]) - (25 * Unit) \div 2
  ELSE top(positions[n])

Rows == {i \in 1..Len(levels) : Len(levels[i]) > 0}

RowLeft(i) == SlotLeft(levels[i][1])

RowRight(i) == SlotRight(levels[i][Len(levels[i])])

Widest(w) == w \in Rows /\ \A i \in Rows : RowRight(i) - RowLeft(i) <= RowRight(w) - RowLeft(w)

\* C12: positionNodes centres every non-empty row under the widest row (the
\* midpoints of their extents are equal; a real node has a slot of 115, a
\* virtual node a slot of 25, and 25 lies between adjacent slots), and the
\* slots of row i have their top at i * (25 + 45).
C12_RowsCentred ==
  Positioned =>
    \A i \in Rows :
      /\ \A w \in Rows :
           Widest(w) => RowLeft(i) + RowRight(i) = RowLeft(w) + RowRight(w)
      /\ \A k \in 1..Len(levels[i]) :
           /\ SlotTop(levels[i][k]) = (i - 1) * (25 + 45) * Unit
           /\ ~IsVirtual(levels[i][k]) =>
                /\ rectWidth(positions[levels[i][k]]) = 115 * Unit
                /\ rectHeight(positions[levels[i][k]]) = 25 * Unit
           /\ k > 1 => SlotLeft(levels[i][k]) = SlotRight(levels[i][k - 1]) + 25 * Unit

\* Three rows are placed; the row of most nodes holds a real and a virtual
\* node, so that it is wider than the other rows and narrower than the width
\* positionNodes reserves
C12_Witness ==
  /\ Positioned
  /\ Len(levels) >= 3
  /\ \E i, j \in Rows :
       /\ RowRight(i) - RowLeft(i) < RowRight(j) - RowLeft(j)
       /\ Widest(j)
       /\ RowRight(j) - RowLeft(j) < totalWidth(levels)
       /\ \E a, b \in Range(levels[j]) : IsVirtual(a) /\ ~IsVirtual(b)

Drawn == pc = "drawn"

\* The row of a node
RowOf(n) == CHOOSE i \in 1..Len(levels) : n \in Range(levels[i])

\* The point where the path of edge e leaves the k-th node of its chain: where
\* the path starts, and then where the curve that reached the node ends
LeavesAt(e, k) == edgePaths[e][k].to

\* The point where the path of edge e reaches the k-th node of its chain
EntersAt(e, k) == edgePaths[e][k].to

CentreX(n) == left(positions[n]) + rectWidth(positions[n]) \div 2

Bottom(n) == top(positions[n]) + rectHeight(positions[n])

\* The face of node n that is nearer to node m: the bottom when m lies below
NearerFace(n, m) == IF RowOf(m) > RowOf(n) THEN Bottom(n) ELSE top(positions[n])

\* C11: for every edge and every node of its chain that has a next node, the
\* path leaves the node at the horizontal centre of its rectangle, on the
\* bottom edge when the next node lies below and on the top edge when it lies
\* above, and enters the next node on its nearer face; the starting point of
\* the path included.
C11_AnchorsOnNearerFace ==
  Drawn =>
    \A e \in EdgeIds : \A k \in 1..(Len(edgeToLevelNodes[e]) - 1) :
      LET n == edgeToLevelNodes[e][k]
          m == edgeToLevelNodes[e][k + 1]
      IN  /\ LeavesAt(e, k) = Vec2(CentreX(n), NearerFace(n, m))
          /\ EntersAt(e, k + 1) = Vec2(CentreX(m), NearerFace(m, n))

\* rankVertices has returned and the program uses its ranks
RanksInUse == pc \in {"ranked", "sort", "done", "positioned", "drawn", "error"}

\* C13: on every graph, cyclic or not, whatever the order of its vertices and
\* edges, rankVertices gives different ranks to the two ends of every edge
\* that is not a self-loop, and ranksToLevels on these ranks throws no Error.
C13_PipelineNeverThrows ==
  /\ pc # "error"
  /\ err = ""
  /\ RanksInUse =>
       \A e \in EdgeIds :
         /\ edges[e].from \in DOMAIN ranks
         /\ edges[e].to \in DOMAIN ranks
         /\ edges[e].from # edges[e].to => ranks[edges[e].from] # ranks[edges[e].to]

\* ranksToLevels has returned on a graph with a cycle through three vertices,
\* one edge of it a back edge
C13_Witness ==
  /\ pc = "done"
  /\ \E c, d, e \in EdgeIds :
       /\ Cardinality({edges[c].from, edges[d].from, edges[e].from}) = 3
       /\ edges[c].to = edges[d].from
       /\ edges[d].to = edges[e].from
       /\ edges[e].to = edges[c].from
       /\ ranks[edges[e].to] < ranks[edges[e].from]

====
